---- MODULE Spec2Model ----
(***************************************************************************)
(* Model of src/app.py: the Streamlit script that uploads an invoice       *)
(* document to the inference service, parses the JSON text it returns,     *)
(* shows the summary fields and the product table, and offers an Excel     *)
(* export.  One behaviour of the model is one run of the script.           *)
(***************************************************************************)
EXTENDS Integers, Sequences, FiniteSets, TLC

(***************************************************************************)
(* Bounds of the model.                                                    *)
(***************************************************************************)
\* longest products list the inference service returns
MaxProducts == 2

(***************************************************************************)
(* Python / JSON values.  A value is a tagged record; a dict keeps its     *)
(* items in insertion order, as a sequence of [k, v] pairs.                *)
(***************************************************************************)
Str(s) == [t |-> "str", s |-> s]
Num(n) == [t |-> "num", n |-> n]
Bool(b) == [t |-> "bool", b |-> b]
None == [t |-> "null"]
List(items) == [t |-> "list", items |-> items]
Obj(pairs) == [t |-> "obj", pairs |-> pairs]
Pair(k, v) == [k |-> k, v |-> v]
\* a missing cell of a DataFrame
NaN == [t |-> "nan"]

IsScalar(v) == v.t \in {"str", "num", "bool", "null"}

\* bool(v): the truth value Python's `if v:` tests
Truthy(v) ==
    CASE v.t = "null" -> FALSE
      [] v.t = "bool" -> v.b
      [] v.t = "num" -> v.n /= 0
      [] v.t = "str" -> v.s /= ""
      [] v.t = "list" -> v.items /= <<>>
      [] v.t = "obj" -> v.pairs /= <<>>
      [] OTHER -> TRUE

\* str(v) of a scalar, as an f-string or st.text_input renders it
PyStr(v) ==
    CASE v.t = "str" -> v.s
      [] v.t = "num" -> ToString(v.n)
      [] v.t = "bool" -> IF v.b THEN "True" ELSE "False"
      [] v.t = "null" -> "None"
      [] OTHER -> "<repr>"

HasKey(pairs, k) == \E i \in 1..Len(pairs) : pairs[i].k = k

\* d[k] of a dict that has the key
Lookup(pairs, k) == pairs[CHOOSE i \in 1..Len(pairs) : pairs[i].k = k].v

\* d[k] = v : an existing key keeps its position, a new key goes last
DictSet(pairs, k, v) ==
    IF HasKey(pairs, k)
    THEN [i \in 1..Len(pairs) |-> IF pairs[i].k = k THEN Pair(k, v) ELSE pairs[i]]
    ELSE Append(pairs, Pair(k, v))

\* data.get(k, default) of a dict
Get(d, k, default) == IF HasKey(d.pairs, k) THEN Lookup(d.pairs, k) ELSE default

(***************************************************************************)
(* The response text, as a sequence of JSON lexemes.                       *)
(***************************************************************************)
P(c) == [k |-> "punct", c |-> c]
SLit(s) == [k |-> "string", c |-> s]
NLit(n) == [k |-> "number", n |-> n]
Word(w) == [k |-> "word", c |-> w]

RECURSIVE Dumps(_)
RECURSIVE DumpItems(_, _)
RECURSIVE DumpPairs(_, _)
\* the JSON text of a value, as the inference service writes it
Dumps(v) ==
    CASE v.t = "str" -> <<SLit(v.s)>>
      [] v.t = "num" -> <<NLit(v.n)>>
      [] v.t = "bool" -> <<Word(IF v.b THEN "true" ELSE "false")>>
      [] v.t = "null" -> <<Word("null")>>
      [] v.t = "list" -> <<P("[")>> \o DumpItems(v.items, 1) \o <<P("]")>>
      [] v.t = "obj" -> <<P("{")>> \o DumpPairs(v.pairs, 1) \o <<P("}")>>
DumpItems(items, i) ==
    IF i > Len(items) THEN <<>>
    ELSE (IF i > 1 THEN <<P(",")>> ELSE <<>>)
         \o Dumps(items[i]) \o DumpItems(items, i + 1)
DumpPairs(pairs, i) ==
    IF i > Len(pairs) THEN <<>>
    ELSE (IF i > 1 THEN <<P(",")>> ELSE <<>>)
         \o <<SLit(pairs[i].k), P(":")>> \o Dumps(pairs[i].v)
         \o DumpPairs(pairs, i + 1)

(***************************************************************************)
(* json.loads: a strict recursive-descent parse of the lexemes.  A parse   *)
(* step yields [ok, val, next] or [ok |-> FALSE, msg]; positions are left  *)
(* out of the messages.                                                    *)
(***************************************************************************)
Fail(msg) == [ok |-> FALSE, msg |-> msg]
Done(val, next) == [ok |-> TRUE, val |-> val, next |-> next]
IsP(toks, i, c) == i <= Len(toks) /\ toks[i].k = "punct" /\ toks[i].c = c

RECURSIVE ParseValue(_, _)
RECURSIVE ParseArray(_, _, _)
RECURSIVE ParseObject(_, _, _)
ParseValue(toks, i) ==
    IF i > Len(toks) THEN Fail("Expecting value")
    ELSE LET tk == toks[i] IN
      CASE tk.k = "string" -> Done(Str(tk.c), i + 1)
        [] tk.k = "number" -> Done(Num(tk.n), i + 1)
        [] tk.k = "word" ->
             (CASE tk.c = "null" -> Done(None, i + 1)
                [] tk.c = "true" -> Done(Bool(TRUE), i + 1)
                [] tk.c = "false" -> Done(Bool(FALSE), i + 1)
                [] OTHER -> Fail("Expecting value"))
        [] tk.k = "punct" ->
             (CASE tk.c = "[" ->
                     IF IsP(toks, i + 1, "]") THEN Done(List(<<>>), i + 2)
                     ELSE ParseArray(toks, i + 1, <<>>)
                [] tk.c = "{" ->
                     IF IsP(toks, i + 1, "}") THEN Done(Obj(<<>>), i + 2)
                     ELSE ParseObject(toks, i + 1, <<>>)
                [] OTHER -> Fail("Expecting value"))
\* after "[" or ",": one element, then "," or "]"
ParseArray(toks, i, acc) ==
    LET e == ParseValue(toks, i) IN
    IF ~e.ok THEN e
    ELSE IF IsP(toks, e.next, "]") THEN Done(List(Append(acc, e.val)), e.next + 1)
    ELSE IF IsP(toks, e.next, ",") THEN ParseArray(toks, e.next + 1, Append(acc, e.val))
    ELSE Fail("Expecting ',' delimiter")
\* after "{" or ",": "key" : value, then "," or "}"
ParseObject(toks, i, acc) ==
    IF ~(i <= Len(toks) /\ toks[i].k = "string")
    THEN Fail("Expecting property name enclosed in double quotes")
    ELSE IF ~IsP(toks, i + 1, ":") THEN Fail("Expecting ':' delimiter")
    ELSE LET e == ParseValue(toks, i + 2) IN
      IF ~e.ok THEN e
      ELSE LET d == DictSet(acc, toks[i].c, e.val) IN
        IF IsP(toks, e.next, "}") THEN Done(Obj(d), e.next + 1)
        ELSE IF IsP(toks, e.next, ",") THEN ParseObject(toks, e.next + 1, d)
        ELSE Fail("Expecting ',' delimiter")

\* json.loads(text): the value, or the JSONDecodeError it raises
Loads(toks) ==
    LET r == ParseValue(toks, 1) IN
    IF ~r.ok THEN r
    ELSE IF r.next <= Len(toks) THEN Fail("Extra data")
    ELSE r

(***************************************************************************)
(* pandas: a DataFrame is [columns, rows]; each row holds one cell per     *)
(* column, NaN where the row has no value for the column.  Numbers that    *)
(* occur are small integers, which a float64 column holds exactly.         *)
(***************************************************************************)
Frame(columns, rows) == [ok |-> TRUE, columns |-> columns, rows |-> rows]
Raise(type, msg) == [ok |-> FALSE, type |-> type, msg |-> msg]

RECURSIVE AddKeys(_, _, _)
\* acc extended by the keys of pairs[i..] that it lacks, in order
AddKeys(acc, pairs, i) ==
    IF i > Len(pairs) THEN acc
    ELSE AddKeys(IF \E j \in 1..Len(acc) : acc[j] = pairs[i].k
                 THEN acc ELSE Append(acc, pairs[i].k), pairs, i + 1)

RECURSIVE UnionKeys(_, _, _)
\* the keys of the dicts items[i..], in the order first seen
UnionKeys(acc, items, i) ==
    IF i > Len(items) THEN acc
    ELSE UnionKeys(AddKeys(acc, items[i].pairs, 1), items, i + 1)

\* RowsOfDicts building the rows from the end of the list
RowsOfDictsReversed(items) ==
    LET cols == UnionKeys(<<>>, items, 1) IN
    Frame(cols, [i \in 1..Len(items) |->
                   [j \in 1..Len(cols) |->
                      Get(items[Len(items) + 1 - i], cols[j], NaN)]])

\* pd.DataFrame(list of dicts): one row per dict, in list order
RowsOfDicts(items) ==
    LET cols == UnionKeys(<<>>, items, 1) IN
    Frame(cols, [i \in 1..Len(items) |->
                   [j \in 1..Len(cols) |-> Get(items[i], cols[j], NaN)]])

\* pd.DataFrame(data) for the shapes a parsed `products` takes here: a list
\* whose first element is a dict or a scalar, a dict of scalars, a scalar
DataFrameOf(v) ==
    CASE v.t = "list" /\ v.items = <<>> -> Frame(<<>>, <<>>)
      [] v.t = "list" /\ v.items /= <<>> /\ v.items[1].t = "obj" ->
           IF \A i \in 1..Len(v.items) : v.items[i].t = "obj"
           THEN RowsOfDicts(v.items)
           ELSE Raise("AttributeError", "object has no attribute 'keys'")
      [] v.t = "list" /\ v.items /= <<>> /\ IsScalar(v.items[1]) ->
           Frame(<<"0">>, [i \in 1..Len(v.items) |-> <<v.items[i]>>])
      [] v.t = "obj" /\ \A i \in 1..Len(v.pairs) : IsScalar(v.pairs[i].v) ->
           Raise("ValueError", "If using all scalar values, you must pass an index")
      [] IsScalar(v) ->
           Raise("ValueError", "DataFrame constructor not properly called!")

\* an empty spreadsheet cell
Empty == [t |-> "empty"]

\* the cell to_excel writes for a DataFrame cell: NaN and None are left empty
ExcelCell(c) == IF c.t \in {"nan", "null"} THEN Empty ELSE c

\* df.to_excel(writer, index=False, sheet_name=name): header row, then the rows
ToExcel(df, name) ==
    [name |-> name, header |-> df.columns,
     rows |-> [i \in 1..Len(df.rows) |->
                [j \in 1..Len(df.columns) |-> ExcelCell(df.rows[i][j])]]]

(***************************************************************************)
(* What the inference service may answer.                                  *)
(***************************************************************************)
Absent == [t |-> "absent"]

\* <<Pair(k, v)>>, or nothing when the response leaves the key out
Opt(k, v) == IF v = Absent THEN <<>> ELSE <<Pair(k, v)>>

Widget == Obj(<<Pair("name", Str("Widget")), Pair("quantity", Num(5)),
                Pair("rate", Num(10)), Pair("net_amount", Num(50))>>)
Gadget == Obj(<<Pair("name", Str("Gadget")), Pair("quantity", Str("2")),
                Pair("rate", Num(10))>>)
Bolt == Obj(<<Pair("name", Str("Bolt")), Pair("hsn", Str("7318")),
              Pair("net_amount", Num(7))>>)
ProductLines == {Widget, Gadget, Bolt}

\* lists of 1..MaxProducts product lines
ProductLists ==
    UNION {[1..n -> ProductLines] : n \in 1..MaxProducts}

ProductsChoices ==
    {List(l) : l \in ProductLists}
      \cup {Absent, None, List(<<>>), Str(""), Str("abc"), Num(0), Num(5),
            Bool(TRUE), Obj(<<>>), Obj(<<Pair("name", Str("Widget"))>>),
            List(<<Str("Widget")>>), List(<<Widget, Str("Gadget")>>)}

InvoiceNumberChoices == {Absent, Str("INV-7"), Str("N/A"), Num(42), None}

OtherScalars == {"stockist_name", "retailer_name", "invoice_date",
                 "total_discount_amount"}

ScalarValue(k) ==
    CASE k = "stockist_name" -> Str("Acme")
      [] k = "retailer_name" -> Str("Bharat Stores")
      [] k = "invoice_date" -> Str("2024-01-05")
      [] k = "total_discount_amount" -> Num(12)

\* the JSON objects the service may return
ResponseObjects ==
    {Obj(Opt("stockist_name",
             IF "stockist_name" \in S THEN ScalarValue("stockist_name") ELSE Absent)
         \o Opt("retailer_name",
             IF "retailer_name" \in S THEN ScalarValue("retailer_name") ELSE Absent)
         \o Opt("invoice_number", inv)
         \o Opt("invoice_date",
             IF "invoice_date" \in S THEN ScalarValue("invoice_date") ELSE Absent)
         \o Opt("total_discount_amount",
             IF "total_discount_amount" \in S
             THEN ScalarValue("total_discount_amount") ELSE Absent)
         \o Opt("products", prod)) :
       S \in SUBSET OtherScalars, inv \in InvoiceNumberChoices,
       prod \in ProductsChoices}

\* valid JSON that is not an object
NonObjects == {List(<<Widget>>), Str("Acme"), Num(5), None}

\* texts that are not JSON: free text, nothing, a cut-off object, trailing text
Malformed ==
    {<<Word("not"), Word("valid"), Word("json")>>,
     <<>>,
     <<P("{"), SLit("products"), P(":"), P("[")>>,
     <<P("{"), SLit("products")>>,
     <<P("{"), P(",")>>,
     <<P("["), NLit(5), NLit(6), P("]")>>,
     Dumps(Obj(<<Pair("products", List(<<Widget>>))>>)) \o <<Word("Done")>>}

Responses == {Dumps(v) : v \in ResponseObjects \cup NonObjects} \cup Malformed

(***************************************************************************)
(* Program constants.                                                      *)
(***************************************************************************)
\* the messages json.loads raises; st.error shows str(e), not the type
JSONDecodeMessages ==
    {"Expecting value", "Extra data", "Expecting ',' delimiter",
     "Expecting ':' delimiter",
     "Expecting property name enclosed in double quotes"}

\* what a call to the inference service may raise: a rejection by the service,
\* a transport failure, or the client library failing to decode a reply body
\* that is not JSON
ServiceErrors ==
    {Raise("ClientError", "400 INVALID_ARGUMENT"),
     Raise("ConnectError", "Connection refused"),
     Raise("JSONDecodeError", "Expecting value")}

\* what the spreadsheet writer may raise while writing or saving
ExportErrors == {Raise("OSError", "No space left on device")}

\* an uploaded file, its name given as name.split('.')
File(parts) == [t |-> "file", name |-> parts]
UploadedFiles == {None, File(<<"invoice", "pdf">>), File(<<"scan", "page1", "jpg">>)}
ApiKeys == {None, Str(""), Str("secret-key")}

Unset == [t |-> "unset"]
NoExc == [ok |-> TRUE]

\* the sheet names and the download's MIME type
XlsxMime == "application/vnd.openxmlformats-officedocument.spreadsheetml.sheet"

(***************************************************************************)
(* State of one run of the script.                                         *)
(***************************************************************************)
VARIABLES
    pc,             \* the statement the script is at
    api_key,        \* st.secrets.get("GEMINI_API_KEY")
    uploaded_file,  \* the uploader's value: None or the uploaded file
    tmp_file_path,  \* suffix of the temporary file's path, once created
    tmp_exists,     \* the temporary file is on disk
    sample_file,    \* the handle client.files.upload returned
    response,       \* response.text
    data,           \* json.loads(response.text)
    products,       \* data.get("products", [])
    df,             \* pd.DataFrame(products)
    meta_df,        \* the one-row metadata DataFrame
    sheets,         \* the sheets written to the ExcelWriter so far
    output,         \* the BytesIO: the workbook saved when the writer closes
    exc,            \* the exception in flight, caught by `except Exception`
    shown,          \* the elements rendered on the page, in order
    calls           \* the pipeline steps started in this run, in order

vars == <<pc, api_key, uploaded_file, tmp_file_path, tmp_exists, sample_file,
          response, data, products, df, meta_df, sheets, output, exc, shown,
          calls>>

Init ==
    /\ pc = "config"
    /\ api_key \in ApiKeys
    /\ uploaded_file \in UploadedFiles
    /\ tmp_file_path = Unset
    /\ tmp_exists = FALSE
    /\ sample_file = Unset
    /\ response = Unset
    /\ data = Unset
    /\ products = Unset
    /\ df = Unset
    /\ meta_df = Unset
    /\ sheets = <<>>
    /\ output = Unset
    /\ exc = NoExc
    /\ shown = <<>>
    /\ calls = <<>>

StError(text) == [w |-> "error", text |-> text]
StInfo(text) == [w |-> "info", text |-> text]
StWarning(text) == [w |-> "warning", text |-> text]
StTextInput(label, value) == [w |-> "text_input", label |-> label, value |-> value]
StDataframe(frame) == [w |-> "dataframe", frame |-> frame]
StDownloadButton(file_name, bytes, mime) ==
    [w |-> "download_button", file_name |-> file_name, data |-> bytes, mime |-> mime]

\* Configure testing `api_key is None` in place of `not api_key`
ConfigureNoneOnly ==
    /\ pc = "config"
    /\ IF api_key = None
       THEN /\ shown' = Append(shown,
                 StError("API Key not found! Please set it in Streamlit Secrets."))
            /\ pc' = "stopped"
       ELSE /\ shown' = shown
            /\ pc' = "uploader"
    /\ UNCHANGED <<api_key, uploaded_file, tmp_file_path, tmp_exists, sample_file,
                   response, data, products, df, meta_df, sheets, output, exc, calls>>

\* lines 18-24: no API key, or an empty one, stops the script
Configure ==
    /\ pc = "config"
    /\ IF ~Truthy(api_key)
       THEN /\ shown' = Append(shown,
                 StError("API Key not found! Please set it in Streamlit Secrets."))
            /\ pc' = "stopped"
       ELSE /\ shown' = shown
            /\ pc' = "uploader"
    /\ UNCHANGED <<api_key, uploaded_file, tmp_file_path, tmp_exists, sample_file,
                   response, data, products, df, meta_df, sheets, output, exc, calls>>

\* lines 31-39: without a file the script ends; with one, its bytes are
\* copied to a temporary file that outlives the `with` (delete=False)
SaveTempFile ==
    /\ pc = "uploader"
    /\ IF uploaded_file = None
       THEN /\ pc' = "done"
            /\ UNCHANGED <<tmp_file_path, tmp_exists, shown>>
       ELSE /\ tmp_file_path' = Str("." \o uploaded_file.name[Len(uploaded_file.name)])
            /\ tmp_exists' = TRUE
            /\ shown' = Append(shown,
                 StInfo("Analyzing document... this may take a moment."))
            /\ pc' = "upload"
    /\ UNCHANGED <<api_key, uploaded_file, sample_file, response, data, products,
                   df, meta_df, sheets, output, exc, calls>>

\* line 44: client.files.upload(path=tmp_file_path)
Upload ==
    /\ pc = "upload"
    /\ calls' = Append(calls, "upload")
    /\ \/ /\ sample_file' = [t |-> "file", path |-> tmp_file_path]
          /\ pc' = "generate"
          /\ exc' = exc
       \/ \E e \in ServiceErrors :
            /\ exc' = e
            /\ pc' = "except"
            /\ sample_file' = sample_file
    /\ UNCHANGED <<api_key, uploaded_file, tmp_file_path, tmp_exists, response,
                   data, products, df, meta_df, sheets, output, shown>>

\* lines 61-67: client.models.generate_content(...)
Generate ==
    /\ pc = "generate"
    /\ calls' = Append(calls, "generate")
    /\ \/ \E text \in Responses :
            /\ response' = text
            /\ pc' = "parse"
            /\ exc' = exc
       \/ \E e \in ServiceErrors :
            /\ exc' = e
            /\ pc' = "except"
            /\ response' = response
    /\ UNCHANGED <<api_key, uploaded_file, tmp_file_path, tmp_exists, sample_file,
                   data, products, df, meta_df, sheets, output, shown>>

\* Parse recovering from a decode error with an empty result
ParseBestEffort ==
    /\ pc = "parse"
    /\ calls' = Append(calls, "parse")
    /\ LET r == Loads(response) IN
       IF r.ok
       THEN /\ data' = r.val
            /\ exc' = exc
       ELSE /\ data' = Obj(<<>>)
            /\ exc' = Raise("JSONDecodeError", r.msg)
    /\ pc' = "summary"
    /\ UNCHANGED <<api_key, uploaded_file, tmp_file_path, tmp_exists, sample_file,
                   response, products, df, meta_df, sheets, output, shown>>

\* line 70: data = json.loads(response.text)
Parse ==
    /\ pc = "parse"
    /\ calls' = Append(calls, "parse")
    /\ LET r == Loads(response) IN
       IF r.ok
       THEN /\ data' = r.val
            /\ pc' = "summary"
            /\ exc' = exc
       ELSE /\ exc' = Raise("JSONDecodeError", r.msg)
            /\ pc' = "except"
            /\ data' = data
    /\ UNCHANGED <<api_key, uploaded_file, tmp_file_path, tmp_exists, sample_file,
                   response, products, df, meta_df, sheets, output, shown>>

\* lines 73-82: the five summary fields; data.get needs a dict
Summary ==
    /\ pc = "summary"
    /\ calls' = Append(calls, "summary")
    /\ IF data.t = "obj"
       THEN /\ shown' = shown \o
                 <<StTextInput("Stockist", Get(data, "stockist_name", Str("N/A"))),
                   StTextInput("Retailer", Get(data, "retailer_name", Str("N/A"))),
                   StTextInput("Invoice #", Get(data, "invoice_number", Str("N/A"))),
                   StTextInput("Date", Get(data, "invoice_date", Str("N/A"))),
                   StTextInput("Total Discount",
                               Get(data, "total_discount_amount", Str("0")))>>
            /\ pc' = "products"
            /\ exc' = exc
       ELSE /\ exc' = Raise("AttributeError", "object has no attribute 'get'")
            /\ pc' = "except"
            /\ shown' = shown
    /\ UNCHANGED <<api_key, uploaded_file, tmp_file_path, tmp_exists, sample_file,
                   response, data, products, df, meta_df, sheets, output>>

\* GetProducts testing `products is not None` in place of `products`
GetProductsNotNone ==
    /\ pc = "products"
    /\ LET p == Get(data, "products", List(<<>>)) IN
       /\ products' = p
       /\ IF p /= None
          THEN /\ pc' = "dataframe"
               /\ shown' = shown
          ELSE /\ shown' = Append(shown,
                    StWarning("No product line items were detected."))
               /\ pc' = "finally"
    /\ UNCHANGED <<api_key, uploaded_file, tmp_file_path, tmp_exists, sample_file,
                   response, data, df, meta_df, sheets, output, exc, calls>>

\* lines 85-86 and 113-114: products, and the warning when it is falsy
GetProducts ==
    /\ pc = "products"
    /\ LET p == Get(data, "products", List(<<>>)) IN
       /\ products' = p
       /\ IF Truthy(p)
          THEN /\ pc' = "dataframe"
               /\ shown' = shown
          ELSE /\ shown' = Append(shown,
                    StWarning("No product line items were detected."))
               /\ pc' = "finally"
    /\ UNCHANGED <<api_key, uploaded_file, tmp_file_path, tmp_exists, sample_file,
                   response, data, df, meta_df, sheets, output, exc, calls>>

\* lines 88-89: df = pd.DataFrame(products); st.dataframe(df)
Project ==
    /\ pc = "dataframe"
    /\ calls' = Append(calls, "project")
    /\ LET f == DataFrameOf(products) IN
       IF f.ok
       THEN /\ df' = f
            /\ shown' = Append(shown, StDataframe(f))
            /\ pc' = "write_products"
            /\ exc' = exc
       ELSE /\ exc' = f
            /\ pc' = "except"
            /\ UNCHANGED <<df, shown>>
    /\ UNCHANGED <<api_key, uploaded_file, tmp_file_path, tmp_exists, sample_file,
                   response, data, products, meta_df, sheets, output>>

\* ExcelWriter.__exit__ on an exception: the writer still closes, saving the
\* sheets written so far to the BytesIO
CloseOnError(written) == [closed |-> TRUE, sheets |-> written]

\* lines 93-95: open the writer on the BytesIO and write the Products sheet
WriteProducts ==
    /\ pc = "write_products"
    /\ calls' = Append(calls, "serialize")
    /\ \/ /\ sheets' = Append(sheets, ToExcel(df, "Products"))
          /\ pc' = "write_meta"
          /\ UNCHANGED <<output, exc>>
       \/ \E e \in ExportErrors :
            /\ exc' = e
            /\ output' = CloseOnError(sheets)
            /\ pc' = "except"
            /\ sheets' = sheets
    /\ UNCHANGED <<api_key, uploaded_file, tmp_file_path, tmp_exists, sample_file,
                   response, data, products, df, meta_df, shown>>

\* lines 97-102: the metadata row; data.get(key) gives None for a missing key
MetaRow ==
    Obj(<<Pair("Stockist", Get(data, "stockist_name", None)),
          Pair("Retailer", Get(data, "retailer_name", None)),
          Pair("Invoice No", Get(data, "invoice_number", None)),
          Pair("Date", Get(data, "invoice_date", None))>>)

\* WriteMeta passing over a failure to write the metadata sheet
WriteMetaSwallowsError ==
    /\ pc = "write_meta"
    /\ LET m == DataFrameOf(List(<<MetaRow>>)) IN
       /\ meta_df' = m
       /\ \/ sheets' = Append(sheets, ToExcel(m, "Invoice Info"))
          \/ sheets' = sheets
    /\ pc' = "close_writer"
    /\ UNCHANGED <<api_key, uploaded_file, tmp_file_path, tmp_exists, sample_file,
                   response, data, products, df, shown, calls, output, exc>>

\* lines 97-103: meta_df and its sheet
WriteMeta ==
    /\ pc = "write_meta"
    /\ LET m == DataFrameOf(List(<<MetaRow>>)) IN
       /\ meta_df' = m
       /\ \/ /\ sheets' = Append(sheets, ToExcel(m, "Invoice Info"))
             /\ pc' = "close_writer"
             /\ UNCHANGED <<output, exc>>
          \/ \E e \in ExportErrors :
               /\ exc' = e
               /\ output' = CloseOnError(sheets)
               /\ pc' = "except"
               /\ sheets' = sheets
    /\ UNCHANGED <<api_key, uploaded_file, tmp_file_path, tmp_exists, sample_file,
                   response, data, products, df, shown, calls>>

\* lines 94 and 105: leaving the `with` saves the workbook; output.seek(0)
CloseWriter ==
    /\ pc = "close_writer"
    /\ \/ /\ output' = [closed |-> TRUE, sheets |-> sheets]
          /\ pc' = "download"
          /\ exc' = exc
       \/ \E e \in ExportErrors :
            /\ exc' = e
            /\ output' = output
            /\ pc' = "except"
    /\ UNCHANGED <<api_key, uploaded_file, tmp_file_path, tmp_exists, sample_file,
                   response, data, products, df, meta_df, sheets, shown, calls>>

\* FileName with the summary's default for a missing invoice number
FileNameDefaultNA(d) ==
    "Anant_" \o PyStr(Get(d, "invoice_number", Str("N/A"))) \o ".xlsx"

\* line 110: f"Anant_{data.get('invoice_number', 'data')}.xlsx"
FileName(d) == "Anant_" \o PyStr(Get(d, "invoice_number", Str("data"))) \o ".xlsx"

\* lines 107-112: the download button
Download ==
    /\ pc = "download"
    /\ calls' = Append(calls, "download")
    /\ shown' = Append(shown, StDownloadButton(FileName(data), output, XlsxMime))
    /\ pc' = "finally"
    /\ UNCHANGED <<api_key, uploaded_file, tmp_file_path, tmp_exists, sample_file,
                   response, data, products, df, meta_df, sheets, output, exc>>

\* line 117: f"An error occurred: {str(e)}"
ErrorText(e) == "An error occurred: " \o e.msg

\* Except as `except Exception: pass`
ExceptSilent ==
    /\ pc = "except"
    /\ pc' = "finally"
    /\ UNCHANGED <<api_key, uploaded_file, tmp_file_path, tmp_exists, sample_file,
                   response, data, products, df, meta_df, sheets, output, exc, calls,
                   shown>>

\* lines 116-117: every exception of the try block is shown the same way
Except ==
    /\ pc = "except"
    /\ shown' = Append(shown, StError(ErrorText(exc)))
    /\ pc' = "finally"
    /\ UNCHANGED <<api_key, uploaded_file, tmp_file_path, tmp_exists, sample_file,
                   response, data, products, df, meta_df, sheets, output, exc, calls>>

\* Finally with the unlink as the last statement of the try block: it is
\* skipped when an exception is in flight
FinallyOnSuccessOnly ==
    /\ pc = "finally"
    /\ tmp_exists' = (tmp_exists /\ exc /= NoExc)
    /\ pc' = "done"
    /\ UNCHANGED <<api_key, uploaded_file, tmp_file_path, sample_file, response,
                   data, products, df, meta_df, sheets, output, exc, shown, calls>>

\* lines 119-121: os.unlink(tmp_file_path)
Finally ==
    /\ pc = "finally"
    /\ tmp_exists' = FALSE
    /\ pc' = "done"
    /\ UNCHANGED <<api_key, uploaded_file, tmp_file_path, sample_file, response,
                   data, products, df, meta_df, sheets, output, exc, shown, calls>>

Next ==
    \/ Configure
    \/ SaveTempFile
    \/ Upload
    \/ Generate
    \/ Parse
    \/ Summary
    \/ GetProducts
    \/ Project
    \/ WriteProducts
    \/ WriteMeta
    \/ CloseWriter
    \/ Download
    \/ Except
    \/ Finally

Spec == Init /\ [][Next]_vars

(***************************************************************************)
(* Vocabulary of the properties.                                           *)
(***************************************************************************)
Rendered(w) == \E i \in 1..Len(shown) : shown[i].w = w
Started(step) == \E i \in 1..Len(calls) : calls[i] = step
Finished == pc = "done"
Failed == exc /= NoExc
\* the try block was left: by its end, by the warning branch or by the handler
LeftTry == pc \in {"finally", "done"}
IsPrefix(s, q) == Len(s) <= Len(q) /\ \A i \in 1..Len(s) : s[i] = q[i]
\* the value the summary field with this label shows
SummaryValue(label) ==
    (CHOOSE e \in {shown[i] : i \in 1..Len(shown)} :
        e.w = "text_input" /\ e.label = label).value
\* the download button on the page
Button ==
    CHOOSE e \in {shown[i] : i \in 1..Len(shown)} : e.w = "download_button"
\* the step that raised the exception in flight
FailedStep == calls[Len(calls)]
ParseFailed == Failed /\ FailedStep = "parse"
\* the parsed response is a JSON object
IsObject == data /= Unset /\ data.t = "obj"

(***************************************************************************)
(* The round trip of the response text through json.loads.                 *)
(***************************************************************************)
TypeOK ==
    /\ pc \in {"config", "stopped", "uploader", "upload", "generate", "parse",
               "summary", "products", "dataframe", "write_products",
               "write_meta", "close_writer", "download", "except", "finally",
               "done"}
    /\ tmp_exists \in BOOLEAN
    /\ data /= Unset => Loads(response) = Done(data, Len(response) + 1)
    /\ data /= Unset => Dumps(data) = response

(***************************************************************************)
(* C1: once a run that created the temporary file has finished, the file   *)
(* is gone from the disk, whether the run succeeded or a step of it (the   *)
(* upload, the generate call, the parse, the projection, the export)       *)
(* failed.                                                                 *)
(***************************************************************************)
C1_TempFileRemoved ==
    /\ Finished /\ tmp_file_path /= Unset => ~tmp_exists
    /\ tmp_exists => pc \notin {"config", "stopped", "uploader", "done"}

\* a run whose export failed after the temporary file was made has finished
C1_Witness ==
    /\ Finished
    /\ tmp_file_path /= Unset
    /\ Failed
    /\ FailedStep = "serialize"

(***************************************************************************)
(* C2 (as stated): a response text that is not JSON is reported as a parse *)
(* error that can be told from the other error kinds (no other failure     *)
(* produces the report a parse failure produces), and nothing is projected *)
(* or exported.                                                            *)
(***************************************************************************)
C2_ParseErrorDistinct ==
    LeftTry /\ Failed =>
      /\ ParseFailed => ~Rendered("dataframe") /\ ~Rendered("download_button")
      /\ (\E m \in JSONDecodeMessages :
            shown[Len(shown)] = StError(ErrorText(Raise("JSONDecodeError", m))))
           => ParseFailed

(***************************************************************************)
(* C2 (amended): a response text that is not JSON is reported by the one   *)
(* catch-all error message, "An error occurred: " followed by the text of  *)
(* the decode error, and nothing is projected or exported: no Products     *)
(* table, no Invoice Info table, no spreadsheet, no download button.       *)
(***************************************************************************)
C2_ParseErrorReported ==
    /\ Started("parse") /\ Loads(response).ok => ~ParseFailed
    /\ Started("parse") /\ ~Loads(response).ok /\ LeftTry =>
         /\ ParseFailed
         /\ \E m \in JSONDecodeMessages :
              shown[Len(shown)] = StError("An error occurred: " \o m)
         /\ ~Rendered("dataframe")
         /\ ~Rendered("download_button")
         /\ ~Rendered("text_input")
         /\ df = Unset /\ meta_df = Unset /\ sheets = <<>> /\ output = Unset
         /\ ~Started("project") /\ ~Started("serialize")

\* the text "not valid json" was returned and the run has finished
C2_Witness ==
    /\ Finished
    /\ ParseFailed
    /\ Len(response) = 3

(***************************************************************************)
(* C3 (as stated): when the response is a JSON object whose `products` is  *)
(* absent, null or anything that is not a list, the run ends with the "no  *)
(* product line items" warning, without a Products table and without an    *)
(* error.                                                                  *)
(***************************************************************************)
C3_NonListProductsGiveNoItems ==
    Finished /\ IsObject /\ products /= Unset /\ products.t /= "list" =>
      /\ Rendered("warning")
      /\ ~Rendered("dataframe")
      /\ ~Rendered("error")
      /\ ~Failed

(***************************************************************************)
(* C4: when `products` is a list of N >= 1 product lines, the Products     *)
(* table has N rows and row i holds exactly the field values of the i-th   *)
(* line, in the table shown and in the Products sheet of the export.       *)
(***************************************************************************)
IsProductList(v) ==
    /\ v /= Unset
    /\ v.t = "list"
    /\ Len(v.items) >= 1
    /\ \A i \in 1..Len(v.items) : v.items[i].t = "obj"

\* row i of a table with these columns holds the fields of `line` and nothing
\* else; `blank` is what an absent field looks like
RowHolds(columns, row, line, blank) ==
    /\ Len(row) = Len(columns)
    /\ \A p \in 1..Len(line.pairs) :
         \E j \in 1..Len(columns) :
           columns[j] = line.pairs[p].k /\ row[j] = line.pairs[p].v
    /\ \A j \in 1..Len(columns) :
         ~HasKey(line.pairs, columns[j]) => row[j] = blank
    /\ \A j, k \in 1..Len(columns) : columns[j] = columns[k] => j = k

C4_RowsInServiceOrder ==
    IsProductList(products) =>
      /\ df /= Unset =>
           /\ Len(df.rows) = Len(products.items)
           /\ \A i \in 1..Len(products.items) :
                RowHolds(df.columns, df.rows[i], products.items[i], NaN)
           /\ shown[Len(shown)] = StDataframe(df) \/ pc /= "write_products"
           /\ Rendered("dataframe")
      /\ sheets /= <<>> =>
           /\ sheets[1].name = "Products"
           /\ Len(sheets[1].rows) = Len(products.items)
           /\ \A i \in 1..Len(products.items) :
                RowHolds(sheets[1].header, sheets[1].rows[i],
                         products.items[i], Empty)
      /\ Rendered("download_button") => Button.data.sheets[1] = sheets[1]
      /\ pc \in {"write_products", "write_meta", "close_writer", "download"}
           => df /= Unset

\* two different product lines were exported in the order they came
C4_Witness ==
    /\ Rendered("download_button")
    /\ products = List(<<Gadget, Widget>>)
    /\ Len(Button.data.sheets[1].rows) = 2

(***************************************************************************)
(* C5 (as stated): when the key of a scalar field is absent from the       *)
(* response object, everything derived from the field is the sentinel:     *)
(* "N/A" (for the discount "0") in the summary field and in the Invoice    *)
(* Info row of the export.                                                 *)
(***************************************************************************)
C5_SentinelsEverywhere ==
    IsObject =>
      /\ Rendered("text_input") =>
           /\ ~HasKey(data.pairs, "stockist_name")
                => SummaryValue("Stockist") = Str("N/A")
           /\ ~HasKey(data.pairs, "retailer_name")
                => SummaryValue("Retailer") = Str("N/A")
           /\ ~HasKey(data.pairs, "invoice_number")
                => SummaryValue("Invoice #") = Str("N/A")
           /\ ~HasKey(data.pairs, "invoice_date")
                => SummaryValue("Date") = Str("N/A")
           /\ ~HasKey(data.pairs, "total_discount_amount")
                => SummaryValue("Total Discount") = Str("0")
      /\ meta_df /= Unset =>
           /\ ~HasKey(data.pairs, "stockist_name")
                => meta_df.rows[1][1] = Str("N/A")
           /\ ~HasKey(data.pairs, "retailer_name")
                => meta_df.rows[1][2] = Str("N/A")
           /\ ~HasKey(data.pairs, "invoice_number")
                => meta_df.rows[1][3] = Str("N/A")
           /\ ~HasKey(data.pairs, "invoice_date")
                => meta_df.rows[1][4] = Str("N/A")

(***************************************************************************)
(* C6 (as stated): every run whose response parsed as a JSON object and    *)
(* that ended without an error has produced an InvoiceInfo table of        *)
(* exactly one row, also when products is empty or absent.                 *)
(***************************************************************************)
C6_InvoiceInfoAlways ==
    Finished /\ IsObject /\ ~Failed =>
      meta_df /= Unset /\ Len(meta_df.rows) = 1

(***************************************************************************)
(* C6 (amended): for every response that parsed as a JSON object the five  *)
(* summary fields are shown; the InvoiceInfo table is built only on the    *)
(* export path, that is when products is truthy and was projected into a   *)
(* Products table, and it then has exactly one row with the four columns;  *)
(* when products is empty, null or absent, as for {"products":[]}, the     *)
(* run ends with neither a Products table nor an InvoiceInfo table.        *)
(***************************************************************************)
C6_InvoiceInfoOnExportPath ==
    /\ meta_df /= Unset =>
         /\ Len(meta_df.rows) = 1
         /\ meta_df.columns = <<"Stockist", "Retailer", "Invoice No", "Date">>
         /\ df /= Unset
         /\ Truthy(products)
    /\ Finished /\ IsObject /\ ~Failed =>
         /\ Rendered("text_input")
         /\ meta_df /= Unset <=> Truthy(products)
         /\ df /= Unset <=> Truthy(products)
         /\ ~Truthy(products) => Rendered("warning") /\ sheets = <<>>

\* the response {"products":[]} was handled to the end
C6_Witness ==
    /\ Finished
    /\ data = Obj(<<Pair("products", List(<<>>))>>)
    /\ meta_df = Unset
    /\ Rendered("text_input")

(***************************************************************************)
(* C7: without an API key (absent or empty) the pipeline never runs: no    *)
(* temporary file is made, nothing is sent to the inference service, and   *)
(* the configuration error is the one thing shown.                         *)
(***************************************************************************)
C7_NoKeyNoRun ==
    ~Truthy(api_key) =>
      /\ pc \in {"config", "stopped"}
      /\ tmp_file_path = Unset /\ ~tmp_exists
      /\ calls = <<>> /\ sample_file = Unset /\ data = Unset
      /\ pc = "stopped" =>
           shown = <<StError("API Key not found! Please set it in Streamlit Secrets.")>>
      /\ pc = "config" => shown = <<>>

\* the script stopped on an empty key although a file was uploaded
C7_Witness ==
    /\ pc = "stopped"
    /\ api_key = Str("")
    /\ uploaded_file /= None

(***************************************************************************)
(* C8: whenever the download button is on the page, the workbook it        *)
(* offers was saved complete, with the Products sheet and the Invoice Info *)
(* sheet; after a failed step the page has no download button.             *)
(***************************************************************************)
C8_NoPartialExport ==
    /\ Rendered("download_button") =>
         /\ ~Failed
         /\ output /= Unset
         /\ output.closed
         /\ Button.data = output
         /\ Len(output.sheets) = 2
         /\ output.sheets[1] = ToExcel(df, "Products")
         /\ output.sheets[2].name = "Invoice Info"
         /\ Len(output.sheets[2].rows) = 1
    /\ Failed => ~Rendered("download_button")

\* the download button is offered at the end of a run
C8_Witness ==
    /\ Finished
    /\ Rendered("download_button")

(***************************************************************************)
(* C9 (as stated): the file name is Anant_<invoice_number>.xlsx and is the *)
(* placeholder name Anant_data.xlsx whenever the summary shows "N/A" as    *)
(* the invoice number.                                                     *)
(***************************************************************************)
C9_PlaceholderWhenSummaryNA ==
    Rendered("download_button") =>
      IF SummaryValue("Invoice #") = Str("N/A")
      THEN Button.file_name = "Anant_data.xlsx"
      ELSE Button.file_name = "Anant_" \o PyStr(SummaryValue("Invoice #")) \o ".xlsx"

(***************************************************************************)
(* C9 (amended): the file name depends on the invoice_number field alone:  *)
(* it is the placeholder name Anant_data.xlsx whenever the key is absent   *)
(* from the response (the summary then shows "N/A"), and                   *)
(* Anant_<str(value)>.xlsx whenever the key is present, also when the      *)
(* value is the text "N/A" itself.                                         *)
(***************************************************************************)
C9_PlaceholderWhenKeyAbsent ==
    Rendered("download_button") =>
      IF HasKey(data.pairs, "invoice_number")
      THEN /\ Button.file_name =
                "Anant_" \o PyStr(Lookup(data.pairs, "invoice_number")) \o ".xlsx"
           /\ SummaryValue("Invoice #") = Lookup(data.pairs, "invoice_number")
      ELSE /\ Button.file_name = "Anant_data.xlsx"
           /\ SummaryValue("Invoice #") = Str("N/A")

\* an export of a response without invoice_number is offered
C9_Witness ==
    /\ Rendered("download_button")
    /\ ~HasKey(data.pairs, "invoice_number")
    /\ Button.file_name = "Anant_data.xlsx"

(***************************************************************************)
(* C10: within one run the stages upload, generate, parse, project,        *)
(* serialize start in this order, each at most once and only while no      *)
(* step has failed; once a step has failed no further step starts, and     *)
(* the failure is what the page shows last when the try block is left.     *)
(***************************************************************************)
Stages == <<"upload", "generate", "parse", "project", "serialize">>
IsStage(step) == \E i \in 1..Len(Stages) : Stages[i] = step

C10_Ordered ==
    /\ IsPrefix(SelectSeq(calls, IsStage), Stages)
    /\ Failed => pc \in {"except", "finally", "done"}
    /\ Failed /\ LeftTry => shown[Len(shown)] = StError(ErrorText(exc))

C10_NoStepAfterFailure ==
    /\ Failed => calls' = calls /\ exc' = exc
    /\ calls' /= calls => ~Failed /\ Len(calls') = Len(calls) + 1

C10_LinearSingleShot == []C10_Ordered /\ [][C10_NoStepAfterFailure]_vars

\* the generate call failed and the run has finished
C10_Witness ==
    /\ Finished
    /\ Failed
    /\ calls = <<"upload", "generate">>
====
